---- MODULE Spec2Model ----
(***************************************************************************)
(* Training utilities of Deep Survival Machines (dsm/utilities.py):       *)
(* get_optimizer, pretrain_dsm and train_dsm as one state machine.        *)
(*                                                                         *)
(* The loss functions and the optimizer arithmetic live outside the file.  *)
(* A loss value is a nondeterministic draw from a small ordered set that   *)
(* includes +infinity.  A parameter value is kept as the term that built   *)
(* it: where it came from and how many optimizer steps were applied to it; *)
(* equal terms are equal parameter values under every optimizer.           *)
(***************************************************************************)
EXTENDS Integers, Sequences, FiniteSets, TLC

\* ---- bounds of the model ----
MaxCost == 4        \* finite validation costs of the main loop are 1..MaxCost
MaxPreCost == 2     \* finite validation losses of pretraining are 1..MaxPreCost
MaxIters == 4       \* n_iter values passed to train_dsm are 0..MaxIters
MaxPreIters == 5    \* pretraining iterations explored
MaxThres == 2       \* thres values passed to pretrain_dsm are 0..MaxThres
MaxN == 2           \* training-set sizes are 0..MaxN
MaxBs == 2          \* batch sizes are 1..MaxBs
MaxLr == 2          \* learning rates are 1..MaxLr
MaxSubjects == 3    \* ragged lists given to the padding helpers have 0..MaxSubjects subjects
MaxSeqLen == 3      \* target sequences given to _get_padded_targets have 0..MaxSeqLen steps
MaxFeatLen == 2     \* feature arrays given to _get_padded_features have 0..MaxFeatLen rows
MaxFeat == 2        \* feature dimensions are 1..MaxFeat
MaxPairLen == 2     \* time/event sequences padded for train_dsm have 1..MaxPairLen steps

\* float('inf'): above every finite cost; cost comparisons are integer comparisons
Inf == MaxCost + MaxPreCost + 1

Costs == (1..MaxCost) \cup {Inf}
PreCosts == (1..MaxPreCost) \cup {Inf}
Choices == {"Adam", "SGD", "RMSProp", "Foo"}
Dists == {"Weibull", "LogNormal"}
LearningRates == 1..MaxLr

\* np.nan, the padding sentinel; every other array entry is >= 0
NaN == 0 - 1
\* entries of feature rows, of time sequences and of event sequences
FeatVals == {1, 2}
TimeVals == {1, 2, NaN}
PairVals == {1, NaN}

VARIABLES
  pc,            \* position of the program
  caller,        \* who called pretrain_dsm: "client" or "train_dsm"
  model,         \* the target model: optimizer tag, dist tag, state_dict
  result,        \* what the finished call returned or raised
  lr,            \* lr argument of train_dsm
  pre_n_iter,    \* n_iter argument of pretrain_dsm
  thres,         \* thres argument of pretrain_dsm
  premodel,      \* pretrain_dsm: the minimal model
  pre_optimizer, \* pretrain_dsm: its optimizer
  pre_oldcost,   \* pretrain_dsm: oldcost
  pre_patience,  \* pretrain_dsm: patience
  pre_costs,     \* pretrain_dsm: costs
  input,         \* the ragged data the client holds
  x_train,       \* train_dsm: x_train, as its row ids
  t_train, e_train,            \* train_dsm: padded arrays [n][d][1]
  t_valid, e_valid,            \* train_dsm: padded arrays [n][d][1]
  t_train_, e_train_,          \* train_dsm: unrolled training arrays
  t_valid_, e_valid_,          \* train_dsm: unrolled validation arrays
  n_iter,        \* train_dsm: n_iter argument
  bs,            \* train_dsm: bs argument
  optimizer,     \* train_dsm: optimizer
  patience,      \* train_dsm: patience
  oldcost,       \* train_dsm: oldcost
  nbatches,      \* train_dsm: nbatches
  dics,          \* train_dsm: dics
  costs,         \* train_dsm: costs
  i, j,          \* train_dsm: loop indices
  xb, tb, eb,    \* train_dsm: current batch
  epochBatches   \* the slices stepped on in the current epoch, in order

vars == <<pc, caller, model, result, lr, pre_n_iter, thres, premodel,
          pre_optimizer, pre_oldcost, pre_patience, pre_costs,
          input, x_train, t_train, e_train, t_valid, e_valid,
          t_train_, e_train_, t_valid_, e_valid_, n_iter, bs, optimizer,
          patience, oldcost, nbatches, dics, costs, i, j, xb, tb, eb,
          epochBatches>>

preVars == <<pre_n_iter, thres, premodel, pre_optimizer, pre_oldcost,
             pre_patience, pre_costs>>
argVars == <<input, lr, x_train, t_train, e_train, t_valid, e_valid,
             t_train_, e_train_, t_valid_, e_valid_, n_iter, bs>>
loopVars == <<optimizer, patience, oldcost, nbatches, dics, costs, i, j,
              xb, tb, eb, epochBatches>>

\* ---- values ----
NoValue == [kind |-> "none"]
NoResult == [fn |-> "none", line |-> 0, args |-> <<>>, value |-> NoValue]
Min(a, b) == IF a <= b THEN a ELSE b
Abs(a) == IF a < 0 THEN 0 - a ELSE a
Last(s) == s[Len(s)]

\* a parameter value: its origin and the optimizer steps of its origin
InitParam == [src |-> "init", steps |-> 0]
\* float(premodel.scale) read where float(premodel.shape) is meant
PretrainedShapeMut(pm) == [src |-> "premodel.scale", steps |-> pm.steps]

\* float(premodel.shape)
PretrainedShape(pm) == [src |-> "premodel.shape", steps |-> pm.steps]
\* float(premodel.scale)
PretrainedScale(pm) == [src |-> "premodel.scale", steps |-> pm.steps]

\* model.state_dict() of a freshly built target model
InitStateDict == [shape |-> InitParam, scale |-> InitParam, net |-> InitParam,
                  steps |-> 0]

\* optimizer.step() on the model: one more step applied to every parameter
OptimizerStep(sd) == [sd EXCEPT !.steps = sd.steps + 1]

\* range(n) counted one too far
rangeMut(n) == 0..n

\* range(n)
range(n) == 0..(n - 1)

\* seq[a:b] for 0 <= a <= b
PySlice(seq, a, b) == SubSeq(seq, Min(a, Len(seq)) + 1, Min(b, Len(seq)))

\* an array of n rows, as the sequence of its row ids 0..n-1
Rows(n) == [k \in 1..n |-> k - 1]

\* the concatenation of a sequence of sequences
RECURSIVE Flatten(_)
Flatten(ss) == IF ss = <<>> THEN <<>> ELSE Flatten(SubSeq(ss, 1, Len(ss) - 1)) \o Last(ss)

\* a padded target array of n subjects, one step each, holding 1
PlainTargets(n) == [k \in 1..n |-> << <<1>> >>]

\* ---- padding helpers ----
\* max() of a non-empty list of lengths
RECURSIVE PyMax(_)
PyMax(ls) ==
  IF Len(ls) = 1 THEN ls[1]
  ELSE LET m == PyMax(SubSeq(ls, 1, Len(ls) - 1))
       IN IF Last(ls) > m THEN Last(ls) ELSE m

\* max([]) with a default of 0, which pads the empty list to an empty array
EmptyMaxMut == [kind |-> "array", data |-> <<>>]

\* max([]) raises
EmptyMax == [kind |-> "ValueError", message |-> "max() arg is an empty sequence"]

\* a 2-D array: its shape and its rows
Array2(rows, f) == [shape |-> <<Len(rows), f>>, rows |-> rows]

\* np.nan*np.ones((k, f))
NanRows(k, f) == [a \in 1..k |-> [b \in 1..f |-> NaN]]
\* np.nan*np.ones(k)
NanVector(k) == [a \in 1..k |-> NaN]

\* np.concatenate with its two arrays swapped
ConcatenateMut(a, b) == b \o a

\* np.concatenate([a, b])
Concatenate(a, b) == a \o b

\* a copy of range(len(t)) that misses the last subject
PadCountMut(t) == Len(t) - 1

\* the subjects that the padding loops visit, range(len(t))
PadCount(t) == Len(t)

\* _get_padded_features(x), x a list of 2-D arrays of one feature dimension
_get_padded_features(x) ==
  IF x = <<>> THEN EmptyMax
  ELSE LET d == PyMax([k \in 1..Len(x) |-> x[k].shape[1]])
       IN [kind |-> "array",
           data |-> [k \in 1..PadCount(x) |->
                       Concatenate(x[k].rows,
                                   NanRows(d - x[k].shape[1], x[k].shape[2]))]]

\* _get_padded_targets(t), t a list of 1-D arrays; [:, :, np.newaxis] wraps
\* every entry in a trailing dimension of size 1
_get_padded_targets(t) ==
  IF t = <<>> THEN EmptyMax
  ELSE LET d == PyMax([k \in 1..Len(t) |-> Len(t[k])])
           padt == [k \in 1..PadCount(t) |->
                      Concatenate(t[k], NanVector(d - Len(t[k])))]
       IN [kind |-> "array",
           data |-> [k \in 1..Len(padt) |->
                       [q \in 1..Len(padt[k]) |-> <<padt[k][q]>>]]]

\* a flattening of an array [n][d][1] that runs down the columns first
Reshape1Mut(data) ==
  IF data = <<>> THEN <<>>
  ELSE Flatten([c \in 1..Len(data[1]) |->
                  Flatten([r \in 1..Len(data) |-> data[r][c]])])

\* data.reshape(-1) of an array [n][d][1]: row-major
Reshape1(data) == Flatten(Flatten(data))

\* the positions selected by the mask torch.isnan(flat), without the ~
RECURSIVE NotNanIndicesMut(_)
NotNanIndicesMut(flat) ==
  IF flat = <<>> THEN <<>>
  ELSE LET head == NotNanIndicesMut(SubSeq(flat, 1, Len(flat) - 1))
       IN IF Last(flat) = NaN THEN Append(head, Len(flat)) ELSE head

\* the positions of a flat array selected by the mask ~torch.isnan(flat),
\* in increasing order
RECURSIVE NotNanIndices(_)
NotNanIndices(flat) ==
  IF flat = <<>> THEN <<>>
  ELSE LET head == NotNanIndices(SubSeq(flat, 1, Len(flat) - 1))
       IN IF Last(flat) # NaN THEN Append(head, Len(flat)) ELSE head

\* _reshape_tensor_with_nans(data)
_reshape_tensor_with_nans(data) ==
  LET flat == Reshape1(data)
      keep == NotNanIndices(flat)
  IN [k \in 1..Len(keep) |-> flat[keep[k]]]

\* the ragged data a client may hold
Row(f) == [1..f -> FeatVals]
FeatureArrays(f) ==
  UNION {{Array2(r, f) : r \in [1..l -> Row(f)]} : l \in 0..MaxFeatLen}
TargetSeqs == UNION {[1..l -> TimeVals] : l \in 0..MaxSeqLen}
\* time and event sequences of the same subjects and the same lengths
PairSeqs == UNION {[1..l -> PairVals] : l \in 1..MaxPairLen}
SameLengths(n, ts) ==
  {es \in [1..n -> PairSeqs] : \A k \in 1..n : Len(es[k]) = Len(ts[k])}
\* the client holds feature arrays, target sequences, or times and events
HoldsFeatures ==
  \E f \in 1..MaxFeat, n \in 0..MaxSubjects :
    \E xs \in [1..n -> FeatureArrays(f)] : input = [kind |-> "features", x |-> xs]
HoldsTargets ==
  \E n \in 0..MaxSubjects :
    \E ts \in [1..n -> TargetSeqs] : input = [kind |-> "targets", t |-> ts]
HoldsPair ==
  \E n \in 1..MaxN :
    \E ts \in [1..n -> PairSeqs] :
      \E es \in SameLengths(n, ts) : input = [kind |-> "pair", t |-> ts, e |-> es]
NoInput == [kind |-> "none"]

\* the client pads its feature arrays
CallPadFeatures ==
  /\ pc = "idle"
  /\ input.kind = "features"
  /\ result' = [fn |-> "_get_padded_features", line |-> 90, args |-> <<input.x>>,
                value |-> _get_padded_features(input.x)]
  /\ pc' = "done"
  /\ UNCHANGED <<caller, model, preVars, argVars, loopVars>>

\* the client pads its target sequences
CallPadTargets ==
  /\ pc = "idle"
  /\ input.kind = "targets"
  /\ result' = [fn |-> "_get_padded_targets", line |-> 99, args |-> <<input.t>>,
                value |-> _get_padded_targets(input.t)]
  /\ pc' = "padded"
  /\ UNCHANGED <<caller, model, preVars, argVars, loopVars>>

\* the client unrolls the padded targets
CallUnroll ==
  /\ pc = "padded"
  /\ result.value.kind = "array"
  /\ result' = [fn |-> "_reshape_tensor_with_nans", line |-> 81,
                args |-> <<result.value.data>>,
                value |-> _reshape_tensor_with_nans(result.value.data)]
  /\ pc' = "done"
  /\ UNCHANGED <<caller, model, preVars, argVars, loopVars>>

\* ---- get_optimizer ----
\* get_optimizer whose 'SGD' branch builds Adam
get_optimizerMut(m, rate) ==
  IF m.optimizer \in {"Adam", "SGD"}
    THEN [kind |-> "optimizer", class |-> "Adam", target |-> "model", lr |-> rate]
  ELSE IF m.optimizer = "RMSProp"
    THEN [kind |-> "optimizer", class |-> "RMSprop", target |-> "model", lr |-> rate]
  ELSE [kind |-> "NotImplementedError",
        message |-> <<"Optimizer ", m.optimizer, " is not implemented">>]

get_optimizer(m, rate) ==
  IF m.optimizer = "Adam"
    THEN [kind |-> "optimizer", class |-> "Adam", target |-> "model", lr |-> rate]
  ELSE IF m.optimizer = "SGD"
    THEN [kind |-> "optimizer", class |-> "SGD", target |-> "model", lr |-> rate]
  ELSE IF m.optimizer = "RMSProp"
    THEN [kind |-> "optimizer", class |-> "RMSprop", target |-> "model", lr |-> rate]
  ELSE [kind |-> "NotImplementedError",
        message |-> <<"Optimizer ", m.optimizer, " is not implemented">>]

CallGetOptimizer ==
  /\ pc = "idle"
  /\ \E rate \in LearningRates :
       result' = [fn |-> "get_optimizer", line |-> 0, args |-> <<model, rate>>,
                  value |-> get_optimizer(model, rate)]
  /\ pc' = "done"
  /\ UNCHANGED <<caller, model, preVars, argVars, loopVars>>

\* ---- pretrain_dsm ----
\* a pretraining loop that breaks one sub-threshold iteration earlier
PretrainPatienceLimitMut == 3 - 1

\* patience value at which the pretraining loop breaks
PretrainPatienceLimit == 3

\* np.abs(costs[-1] - oldcost) < thres; inf - inf is nan and nan < thres is False
ChangeBelow(cost, old, th) ==
  /\ cost # Inf
  /\ old # Inf
  /\ Abs(cost - old) < th

\* lines 50-58
PretrainEntry(n, th, who) ==
  /\ pre_n_iter' = n
  /\ thres' = th
  /\ caller' = who
  /\ premodel' = [dist |-> model.dist, steps |-> 0]
  /\ pre_optimizer' = [kind |-> "optimizer", class |-> "Adam",
                       target |-> "premodel", lr |-> 10]
  /\ pre_oldcost' = Inf
  /\ pre_patience' = 0
  /\ pre_costs' = <<>>
  /\ pc' = "pretrain"

CallPretrain ==
  /\ pc = "idle"
  /\ \E n \in 0..MaxPreIters, th \in 0..MaxThres : PretrainEntry(n, th, "client")
  /\ UNCHANGED <<model, result, argVars, loopVars>>

\* lines 59-74, one iteration whose validation loss is drawn from losses
PretrainIterWith(losses) ==
  /\ pc = "pretrain"
  /\ Len(pre_costs) \in range(pre_n_iter)
  /\ Len(pre_costs) < MaxPreIters
  /\ premodel' = [premodel EXCEPT !.steps = premodel.steps + 1]
  /\ \E valid_loss \in losses :
       /\ pre_costs' = Append(pre_costs, valid_loss)
       /\ IF ChangeBelow(valid_loss, pre_oldcost, thres)
            THEN /\ pre_patience' = pre_patience + 1
                 /\ IF pre_patience + 1 = PretrainPatienceLimit
                      THEN /\ pc' = "pretrain_ret"
                           /\ UNCHANGED pre_oldcost
                      ELSE /\ pc' = "pretrain"
                           /\ pre_oldcost' = valid_loss
            ELSE /\ pre_patience' = pre_patience
                 /\ pc' = "pretrain"
                 /\ pre_oldcost' = valid_loss
  /\ UNCHANGED <<caller, model, result, pre_n_iter, thres, pre_optimizer,
                 argVars, loopVars>>

PretrainIter == PretrainIterWith(PreCosts)

\* line 59, range(n_iter) is exhausted
PretrainExhausted ==
  /\ pc = "pretrain"
  /\ Len(pre_costs) \notin range(pre_n_iter)
  /\ pc' = "pretrain_ret"
  /\ UNCHANGED <<caller, model, result, preVars, argVars, loopVars>>

\* line 76, back in the client
PretrainReturn ==
  /\ pc = "pretrain_ret"
  /\ caller = "client"
  /\ result' = [fn |-> "pretrain_dsm", line |-> 76, args |-> <<pre_n_iter, thres>>,
                value |-> premodel]
  /\ pc' = "done"
  /\ UNCHANGED <<caller, model, preVars, argVars, loopVars>>

\* ---- train_dsm ----
\* n_iter and thres that train_dsm passes to pretrain_dsm (thres in cost units)
TrainPretrainIters == 10000
TrainPretrainThres == 1

\* a main loop that stops one non-improving epoch earlier
EarlyStopPatienceMut == 2 - 1

\* patience value at which a non-improving epoch stops the main loop
EarlyStopPatience == 2

\* an epoch index that starts below the first epoch
InitEpochIndexMut == 0 - 1

\* i before the epoch loop
InitEpochIndex == 0

\* a batch count without the trailing short batch
NBatchesMut(n, b) == n \div b

\* int(x_train.shape[0]/bs)+1
NBatches(n, b) == (n \div b) + 1

\* np.argmin(costs) in place of np.argmax(costs)
ArgMaxMut(cs) ==
  CHOOSE m \in range(Len(cs)) :
    /\ \A k \in range(Len(cs)) : cs[k + 1] >= cs[m + 1]
    /\ \A k \in range(m) : cs[k + 1] > cs[m + 1]

\* np.argmax(costs): 0-based index of the first largest entry
ArgMax(cs) ==
  CHOOSE m \in range(Len(cs)) :
    /\ \A k \in range(Len(cs)) : cs[k + 1] <= cs[m + 1]
    /\ \A k \in range(m) : cs[k + 1] < cs[m + 1]

\* line 139, the batch loop of an epoch starts: its first batch, or past it
EpochEntry(nb) == IF range(nb) # {} THEN "batch" ELSE "valid"

\* lines 101-123: the arguments, the unrolled arrays, the call of pretrain_dsm
TrainEntry(xs, ts, es, tv, ev, b, it, rate) ==
  /\ x_train' = xs
  /\ t_train' = ts
  /\ e_train' = es
  /\ t_valid' = tv
  /\ e_valid' = ev
  /\ bs' = b
  /\ n_iter' = it
  /\ lr' = rate
  /\ t_train_' = _reshape_tensor_with_nans(ts)
  /\ e_train_' = _reshape_tensor_with_nans(es)
  /\ t_valid_' = _reshape_tensor_with_nans(tv)
  /\ e_valid_' = _reshape_tensor_with_nans(ev)
  /\ PretrainEntry(TrainPretrainIters, TrainPretrainThres, "train_dsm")
  /\ UNCHANGED <<input, model, result, loopVars>>

\* train_dsm on n subjects of one step each
CallTrain ==
  /\ pc = "idle"
  /\ \E n \in 0..MaxN, b \in 1..MaxBs, it \in 0..MaxIters, rate \in LearningRates :
       TrainEntry(Rows(n), PlainTargets(n), PlainTargets(n),
                  PlainTargets(1), PlainTargets(1), b, it, rate)

\* train_dsm on the client's padded time and event sequences, which also
\* serve as the validation set
CallTrainData ==
  /\ pc = "idle"
  /\ input.kind = "pair"
  /\ \E b \in 1..MaxBs, it \in 0..MaxIters, rate \in LearningRates :
       LET ts == _get_padded_targets(input.t).data
           es == _get_padded_targets(input.e).data
       IN TrainEntry(Rows(Len(ts)), ts, es, ts, es, b, it, rate)

\* line 116 returns (the locals of pretrain_dsm are gone), then lines 124-138
WarmStart ==
  /\ pc = "pretrain_ret"
  /\ caller = "train_dsm"
  /\ model' = [model EXCEPT !.params.shape = PretrainedShape(premodel),
                            !.params.scale = PretrainedScale(premodel)]
  /\ optimizer' = [kind |-> "optimizer", class |-> "Adam", target |-> "model",
                   lr |-> lr]
  /\ patience' = 0
  /\ oldcost' = Inf
  /\ nbatches' = NBatches(Len(x_train), bs)
  /\ dics' = <<>>
  /\ costs' = <<>>
  /\ j' = 0
  /\ epochBatches' = <<>>
  /\ IF range(n_iter) # {}
       THEN /\ i' = 0
            /\ pc' = EpochEntry(NBatches(Len(x_train), bs))
       ELSE /\ i' = InitEpochIndex
            /\ pc' = "train_ret"
  /\ pre_optimizer' = NoValue
  /\ pre_oldcost' = Inf
  /\ pre_patience' = 0
  /\ pre_costs' = <<>>
  /\ UNCHANGED <<caller, result, pre_n_iter, thres, premodel, argVars,
                 xb, tb, eb>>

\* lines 141-153, one batch
BatchStep ==
  /\ pc = "batch"
  /\ j \in range(nbatches)
  /\ xb' = PySlice(x_train, j * bs, (j + 1) * bs)
  /\ tb' = PySlice(t_train, j * bs, (j + 1) * bs)
  /\ eb' = PySlice(e_train, j * bs, (j + 1) * bs)
  /\ model' = [model EXCEPT !.params = OptimizerStep(model.params)]
  /\ epochBatches' = Append(epochBatches, xb')
  /\ j' = j + 1
  /\ pc' = IF j + 1 \in range(nbatches) THEN "batch" ELSE "valid"
  /\ UNCHANGED <<caller, result, preVars, argVars, optimizer, patience,
                 oldcost, nbatches, dics, costs, i>>

\* a snapshot put in front of the history
AppendSnapshotMut(ds, sd) == <<sd>> \o ds

\* dics.append(deepcopy(model.state_dict()))
AppendSnapshot(ds, sd) == Append(ds, sd)

\* lines 155-163, with the validation loss drawn from losses
ValidateWith(losses) ==
  /\ pc = "valid"
  /\ \E valid_loss \in losses : costs' = Append(costs, valid_loss)
  /\ dics' = AppendSnapshot(dics, model.params)
  /\ pc' = "check"
  /\ UNCHANGED <<caller, model, result, preVars, argVars, optimizer, patience,
                 oldcost, nbatches, i, j, xb, tb, eb, epochBatches>>

Validate == ValidateWith(Costs)

\* line 138, the next epoch or the end of the loop
NextEpoch ==
  IF i + 1 \in range(n_iter)
    THEN /\ i' = i + 1
         /\ j' = 0
         /\ epochBatches' = <<>>
         /\ pc' = EpochEntry(nbatches)
    ELSE /\ pc' = "train_ret"
         /\ UNCHANGED <<i, j, epochBatches>>

\* an oldcost that keeps the best cost seen
NextOldCostMut(old, cost) == Min(old, cost)

\* oldcost = costs[-1]
NextOldCost(old, cost) == cost

\* a patience that an improving epoch leaves as it is
PatienceAfterImprovementMut(p) == p

\* patience = 0
PatienceAfterImprovement(p) == 0

\* lines 165-178
CheckEarlyStop ==
  /\ pc = "check"
  /\ IF Last(costs) >= oldcost
       THEN IF patience = EarlyStopPatience
              THEN /\ model' = [model EXCEPT !.params = dics[ArgMax(costs) + 1]]
                   /\ dics' = <<>>
                   /\ result' = [fn |-> "train_dsm", line |-> 172,
                                 args |-> <<n_iter, bs>>,
                                 value |-> <<model', i>>]
                   /\ pc' = "done"
                   /\ UNCHANGED <<patience, oldcost, i, j, epochBatches>>
              ELSE /\ patience' = patience + 1
                   /\ oldcost' = NextOldCost(oldcost, Last(costs))
                   /\ NextEpoch
                   /\ UNCHANGED <<model, dics, result>>
       ELSE /\ patience' = PatienceAfterImprovement(patience)
            /\ oldcost' = NextOldCost(oldcost, Last(costs))
            /\ NextEpoch
            /\ UNCHANGED <<model, dics, result>>
  /\ UNCHANGED <<caller, preVars, argVars, optimizer, nbatches, costs,
                 xb, tb, eb>>

\* line 180
ReturnFinal ==
  /\ pc = "train_ret"
  /\ result' = [fn |-> "train_dsm", line |-> 180, args |-> <<n_iter, bs>>,
                value |-> <<model, i>>]
  /\ pc' = "done"
  /\ UNCHANGED <<caller, model, preVars, argVars, loopVars>>

\* ---- the program ----
\* the state before any call, for a client with one of the models
InitWith(models) ==
  /\ pc = "idle"
  /\ caller = "client"
  /\ model \in models
  /\ t_valid = <<>>
  /\ e_valid = <<>>
  /\ t_train_ = <<>>
  /\ e_train_ = <<>>
  /\ t_valid_ = <<>>
  /\ e_valid_ = <<>>
  /\ result = NoResult
  /\ lr = 1
  /\ pre_n_iter = 0
  /\ thres = 0
  /\ premodel = NoValue
  /\ pre_optimizer = NoValue
  /\ pre_oldcost = Inf
  /\ pre_patience = 0
  /\ pre_costs = <<>>
  /\ x_train = <<>>
  /\ t_train = <<>>
  /\ e_train = <<>>
  /\ n_iter = 0
  /\ bs = 1
  /\ optimizer = NoValue
  /\ patience = 0
  /\ oldcost = Inf
  /\ nbatches = 0
  /\ dics = <<>>
  /\ costs = <<>>
  /\ i = 0
  /\ j = 0
  /\ xb = <<>>
  /\ tb = <<>>
  /\ eb = <<>>
  /\ epochBatches = <<>>

Models == [optimizer : Choices, dist : Dists, params : {InitStateDict}]

\* a client that holds no ragged data
Init == InitWith(Models) /\ input = NoInput

Next ==
  \/ CallGetOptimizer
  \/ CallPretrain
  \/ PretrainIter
  \/ PretrainExhausted
  \/ PretrainReturn
  \/ CallTrain
  \/ WarmStart
  \/ BatchStep
  \/ Validate
  \/ CheckEarlyStop
  \/ ReturnFinal

Spec == Init /\ [][Next]_vars

\* ---- the program on ragged data ----
\* a client that holds ragged data and an Adam/Weibull model; the loss
\* functions return one fixed value
FlatLoss == {1}
PretrainIterFlat == PretrainIterWith(FlatLoss)
ValidateFlat == ValidateWith(FlatLoss)

InitData ==
  /\ InitWith({m \in Models : m.optimizer = "Adam" /\ m.dist = "Weibull"})
  /\ HoldsFeatures \/ HoldsTargets \/ HoldsPair

NextData ==
  \/ CallPadFeatures
  \/ CallPadTargets
  \/ CallUnroll
  \/ CallTrainData
  \/ PretrainIterFlat
  \/ WarmStart
  \/ BatchStep
  \/ ValidateFlat
  \/ CheckEarlyStop
  \/ ReturnFinal

SpecData == InitData /\ [][NextData]_vars

\* ---- properties ----
\* train_dsm has returned
TrainReturned == pc = "done" /\ result.fn = "train_dsm"
\* train_dsm has returned from the early stop (line 172)
StoppedEarly == TrainReturned /\ result.line = 172
\* train_dsm has returned after the last epoch (line 180)
RanToEnd == TrainReturned /\ result.line = 180
\* the early-stopping check of epoch k (0-based) is over
EpochChecked(k) ==
  /\ Len(costs) >= k + 1
  /\ Len(costs) > k + 1 \/ pc # "check"
\* the recorded cost of epoch k (0-based)
CostOf(k) == costs[k + 1]

\* C1 as stated: finite costs that do not improve over epochs 0, 1 and 2,
\* such as 1.0, 1.2, 1.3, make training (of more than 3 epochs) halt at
\* epoch index 2 and return 2.
C1_Original ==
  (/\ n_iter > 3
   /\ EpochChecked(2)
   /\ CostOf(0) # Inf
   /\ CostOf(1) >= CostOf(0)
   /\ CostOf(2) >= CostOf(1))
  => (TrainReturned /\ result.value[2] = 2)

\* C1 amended: with n_iter > 3, a finite cost at epoch 0 and costs at epochs
\* 1, 2 and 3 each >= the cost of the epoch before, training does not halt at
\* epoch 2; it halts at the check of epoch 3 (the fourth epoch) and returns 3.
C1_Amended ==
  (/\ n_iter > 3
   /\ Len(costs) >= 3
   /\ CostOf(0) # Inf
   /\ CostOf(1) >= CostOf(0)
   /\ CostOf(2) >= CostOf(1))
  => /\ TrainReturned => Len(costs) >= 4
     /\ (EpochChecked(3) /\ CostOf(3) >= CostOf(2))
          => (StoppedEarly /\ result.value[2] = 3 /\ i = 3 /\ Len(costs) = 4)

C1_Witness ==
  /\ StoppedEarly
  /\ costs = <<1, 2, 3, 4>>
  /\ result.value[2] = 3

\* C2: when train stops early, the returned model holds the snapshot of the
\* earliest epoch whose recorded cost is the maximum of all recorded costs.
C2_RestoresMaxCostSnapshot ==
  [][(pc = "check" /\ pc' = "done")
       => \E m \in 1..Len(costs) :
            /\ \A k \in 1..Len(costs) : costs[k] <= costs[m]
            /\ \A k \in 1..(m - 1) : costs[k] < costs[m]
            /\ Len(dics) = Len(costs)
            /\ model'.params = dics[m]
            /\ result'.value[1] = model'
            /\ result'.line = 172]_vars

\* an early stop that restored epoch 1 of 4: neither the last epoch's
\* parameters nor those of the minimum-cost epoch 0
C2_Witness ==
  /\ StoppedEarly
  /\ costs = <<1, 3, 3, 3>>
  /\ nbatches = 2
  /\ model.params.steps = 4
  /\ result.value[1] = model

\* ---- pretrain_dsm properties ----
\* pretrain_dsm is at its return statement
PretrainAtReturn == pc = "pretrain_ret"
\* pretrain_dsm left its loop through the break
PretrainBroke == PretrainAtReturn /\ pre_patience = 3
\* the change of the validation loss at iteration k (1-based) is below thres
SubThreshold(k) ==
  /\ k >= 2
  /\ pre_costs[k] # Inf
  /\ pre_costs[k - 1] # Inf
  /\ Abs(pre_costs[k] - pre_costs[k - 1]) < thres
\* every recorded validation loss is the same finite value
ConstantLoss ==
  /\ Len(pre_costs) >= 1
  /\ pre_costs[1] # Inf
  /\ \A k \in 1..Len(pre_costs) : pre_costs[k] = pre_costs[1]

\* C3: pretraining breaks out only when the change of the validation loss
\* was below the threshold at each of the last 3 iterations.
C3_ConsecutiveOnly ==
  PretrainBroke =>
    /\ Len(pre_costs) >= 3
    /\ \A k \in (Len(pre_costs) - 2)..Len(pre_costs) : SubThreshold(k)

\* C4 as stated, for n_iter > 3: with a constant validation loss,
\* pretraining returns after exactly 3 iterations, through the break.
C4_Original ==
  (PretrainAtReturn /\ pre_n_iter > 3 /\ thres > 0 /\ ConstantLoss)
  => /\ Len(pre_costs) = 3
     /\ premodel.steps = 3
     /\ PretrainBroke

\* C4 amended: with a constant finite validation loss, a positive threshold
\* and n_iter >= 4, pretraining runs exactly 4 iterations (4 optimizer steps,
\* 4 validation evaluations) and returns through the break.
C4_Amended ==
  (pre_n_iter >= 4 /\ thres > 0 /\ ConstantLoss /\ pc \in {"pretrain", "pretrain_ret"})
  => /\ premodel.steps = Len(pre_costs)
     /\ pc = "pretrain" => Len(pre_costs) < 4
     /\ PretrainAtReturn => (Len(pre_costs) = 4 /\ PretrainBroke)

C4_Witness ==
  /\ PretrainBroke
  /\ pre_n_iter = 5
  /\ pre_costs = <<1, 1, 1, 1>>
  /\ premodel.steps = 4

\* ---- get_optimizer properties ----
Supported == {"Adam", "SGD", "RMSProp"}
\* the torch optimizer class of a supported choice
ClassOf(choice) ==
  CASE choice = "Adam" -> "Adam"
    [] choice = "SGD" -> "SGD"
    [] choice = "RMSProp" -> "RMSprop"

\* C5: train on a model whose optimizer tag is unsupported fails before any
\* main-loop batch step and never returns a model; for a supported tag the
\* main loop's optimizer is of the model's declared kind.
C5_TrainUsesDeclaredOptimizer ==
  caller = "train_dsm" =>
    IF model.optimizer \in Supported
      THEN optimizer # NoValue => optimizer.class = ClassOf(model.optimizer)
      ELSE /\ pc \notin {"batch", "valid", "check", "train_ret"}
           /\ model.params.steps = 0
           /\ ~TrainReturned

\* C6: get_optimizer returns, for 'Adam', 'SGD' and 'RMSProp', an optimizer of
\* that kind over the model's parameters at the given learning rate, and for
\* any other choice raises an error whose message contains the choice.
C6_GetOptimizer ==
  (pc = "done" /\ result.fn = "get_optimizer") =>
    LET choice == result.args[1].optimizer
        rate == result.args[2]
        v == result.value
    IN IF choice \in Supported
         THEN /\ v.kind = "optimizer"
              /\ v.class = ClassOf(choice)
              /\ v.target = "model"
              /\ v.lr = rate
         ELSE /\ v.kind = "NotImplementedError"
              /\ \E k \in 1..Len(v.message) : v.message[k] = choice

C6_Witness ==
  /\ pc = "done"
  /\ result.fn = "get_optimizer"
  /\ result.args[1].optimizer = "Foo"
  /\ result.value.kind = "NotImplementedError"

\* ---- train_dsm properties ----
\* C7: a call to train that returns yields the model and an epoch index k
\* with 0 <= k <= n_iter, by early stop or after the last epoch.
C7_EpochIndexInRange ==
  TrainReturned =>
    /\ result.value[1] = model
    /\ result.value[2] \in 0..n_iter
    /\ result.line \in {172, 180}

C7_Witness ==
  /\ RanToEnd
  /\ n_iter = 0
  /\ result.value[2] = 0

\* C8: when no epoch stops early, train runs exactly n_iter epochs, restores
\* no snapshot and returns the parameters left by the last batch step of the
\* last epoch with epoch index n_iter - 1 (n_iter >= 1).
C8_RunsToEnd ==
  (RanToEnd /\ n_iter >= 1) =>
    /\ Len(costs) = n_iter
    /\ Len(dics) = n_iter
    /\ result.value[2] = n_iter - 1
    /\ result.value[1] = model
    /\ model.params = Last(dics)
    /\ model.params.steps = n_iter * nbatches
    /\ \A k \in 1..(n_iter - 1) : dics[k] # model.params

C8_Witness ==
  /\ RanToEnd
  /\ n_iter = 4
  /\ costs = <<4, 3, 2, 1>>
  /\ result.value[2] = 3

\* the elements of a sequence
Elems(q) == {q[k] : k \in 1..Len(q)}
\* train_dsm is inside its epoch loop
InEpoch == caller = "train_dsm" /\ pc \in {"batch", "valid", "check"}

\* C9: in every epoch, the floor(n/bs)+1 slices [j*bs, (j+1)*bs) are pairwise
\* disjoint, each of at most bs subjects, and together cover every training
\* subject once in the original order; x, t and e get the same slice, and
\* one optimizer step is taken per slice.
C9_BatchesPartition ==
  InEpoch =>
    LET n == Len(x_train)
        done == Len(epochBatches)
    IN /\ done = j
       /\ \A k \in 1..done :
            /\ Len(epochBatches[k]) <= bs
            /\ \A q \in 1..Len(epochBatches[k]) :
                 epochBatches[k][q] = (k - 1) * bs + q - 1
            /\ \A k2 \in 1..done :
                 k2 # k => Elems(epochBatches[k]) \cap Elems(epochBatches[k2]) = {}
       /\ done > 0 =>
            /\ xb = Last(epochBatches)
            /\ tb = [q \in 1..Len(xb) |-> t_train[xb[q] + 1]]
            /\ eb = [q \in 1..Len(xb) |-> e_train[xb[q] + 1]]
       /\ model.params.steps = i * ((n \div bs) + 1) + done
       /\ pc \in {"valid", "check"} =>
            /\ done = (n \div bs) + 1
            /\ Flatten(epochBatches) = x_train
            /\ x_train = [k \in 1..n |-> k - 1]

C9_Witness ==
  /\ pc = "valid"
  /\ Len(x_train) = 2
  /\ bs = 1
  /\ epochBatches = <<(<<0>>), (<<1>>), (<<>>)>>
  /\ i = 1

\* C10: on a non-empty training set, the step of a batch whose slice is
\* empty leaves the model's parameters as they were.
C10_EmptyBatchIsNoOp ==
  [][(/\ pc = "batch"
      /\ x_train # <<>>
      /\ PySlice(x_train, j * bs, (j + 1) * bs) = <<>>)
       => model'.params = model.params]_vars

\* ---- padding properties (SpecData) ----
\* a padding helper has returned
Padded(fn) == pc \in {"padded", "done"} /\ result.fn = fn
\* the length of subject k of a ragged feature list or target list
FeatLen(x, k) == x[k].shape[1]
\* m is the largest length among the subjects of lens
IsMaxLen(m, lens) ==
  /\ \E k \in 1..Len(lens) : lens[k] = m
  /\ \A k \in 1..Len(lens) : lens[k] <= m
\* the sum of the first k entries
RECURSIVE SumTo(_, _)
SumTo(lens, k) == IF k = 0 THEN 0 ELSE SumTo(lens, k - 1) + lens[k]
\* no entry of the ragged target list is the sentinel
SentinelFree(t) == \A k \in 1..Len(t) : \A q \in 1..Len(t[k]) : t[k][q] # NaN

\* C11: for a non-empty list of sentinel-free feature arrays, the first
\* own_length rows of row i of the padded array are subject i's array.
C11_PadFeaturesRoundTrip ==
  (Padded("_get_padded_features") /\ result.args[1] # <<>>) =>
    LET x == result.args[1]
        v == result.value
    IN /\ v.kind = "array"
       /\ Len(v.data) = Len(x)
       /\ \A k \in 1..Len(x) :
            /\ Len(v.data[k]) >= FeatLen(x, k)
            /\ SubSeq(v.data[k], 1, FeatLen(x, k)) = x[k].rows

C11_Witness ==
  /\ Padded("_get_padded_features")
  /\ Len(result.args[1]) = 2
  /\ result.args[1][1] = Array2(<< <<1, 2>> >>, 2)
  /\ result.args[1][2] = Array2(<< <<2, 1>>, <<1, 1>> >>, 2)
  /\ result.value.data[1] = << <<1, 2>>, <<NaN, NaN>> >>

\* C12: unrolling the padded form of sentinel-free ragged target sequences
\* gives their concatenation in subject order: as long as the sum of the
\* lengths, with subject k's values in order right after those of the
\* subjects before it.
C12_UnrollIsConcatenation ==
  (pc = "done" /\ result.fn = "_reshape_tensor_with_nans" /\ SentinelFree(input.t)) =>
    LET t == input.t
        lens == [k \in 1..Len(t) |-> Len(t[k])]
        flat == result.value
    IN /\ result.args[1] = _get_padded_targets(t).data
       /\ Len(flat) = SumTo(lens, Len(t))
       /\ \A k \in 1..Len(t) : \A q \in 1..Len(t[k]) :
            flat[SumTo(lens, k - 1) + q] = t[k][q]

C12_Witness ==
  /\ pc = "done"
  /\ result.fn = "_reshape_tensor_with_nans"
  /\ input.t = << <<1, 2>>, <<2, 2, 1>>, <<1>> >>
  /\ result.value = <<1, 2, 2, 2, 1, 1>>

\* C13: the padded array of a non-empty ragged list has one row per subject,
\* every row as wide as the longest subject, the subject's own values before
\* its length and the sentinel from its length on; padded targets carry a
\* trailing dimension of size 1.
C13_PaddedShape ==
  /\ (Padded("_get_padded_features") /\ result.args[1] # <<>>) =>
       LET x == result.args[1]
           a == result.value.data
       IN /\ Len(a) = Len(x)
          /\ \A k \in 1..Len(x) :
               /\ IsMaxLen(Len(a[k]), [m \in 1..Len(x) |-> FeatLen(x, m)])
               /\ \A q \in 1..Len(a[k]) :
                    /\ Len(a[k][q]) = x[k].shape[2]
                    /\ q <= FeatLen(x, k) => a[k][q] = x[k].rows[q]
                    /\ q > FeatLen(x, k) =>
                         \A c \in 1..Len(a[k][q]) : a[k][q][c] = NaN
  /\ (Padded("_get_padded_targets") /\ result.args[1] # <<>>) =>
       LET t == result.args[1]
           a == result.value.data
       IN /\ Len(a) = Len(t)
          /\ \A k \in 1..Len(t) :
               /\ IsMaxLen(Len(a[k]), [m \in 1..Len(t) |-> Len(t[m])])
               /\ \A q \in 1..Len(a[k]) :
                    /\ Len(a[k][q]) = 1
                    /\ q <= Len(t[k]) => a[k][q][1] = t[k][q]
                    /\ q > Len(t[k]) => a[k][q][1] = NaN

C13_Witness ==
  /\ pc = "padded"
  /\ result.fn = "_get_padded_targets"
  /\ result.args[1] = << <<2>>, <<1, 2, 1>> >>
  /\ result.value.data = << << <<2>>, <<NaN>>, <<NaN>> >>,
                            << <<1>>, <<2>>, <<1>> >> >>

\* C14: padding an empty list of sequences ends in an error and returns no
\* padded array.
C14_EmptyInputFails ==
  ((Padded("_get_padded_features") \/ Padded("_get_padded_targets"))
     /\ result.args[1] = <<>>)
  => /\ result.value.kind = "ValueError"
     /\ DOMAIN result.value = {"kind", "message"}
     /\ pc = "padded" => ~ENABLED CallUnroll

C14_Witness ==
  /\ pc = "padded"
  /\ result.fn = "_get_padded_targets"
  /\ result.args[1] = <<>>
  /\ result.value.kind = "ValueError"

\* ---- early-stopping state (Spec) ----
\* train_dsm is in or past its epoch loop
InMainLoop ==
  caller = "train_dsm" /\ pc \in {"batch", "valid", "check", "train_ret", "done"}
\* the smallest of the costs of epochs 0..k-1, +infinity when there is none
RECURSIVE MinCostBefore(_)
MinCostBefore(k) ==
  IF k = 0 THEN Inf
  ELSE LET m == MinCostBefore(k - 1)
       IN IF CostOf(k - 1) < m THEN CostOf(k - 1) ELSE m
\* the cost of the epoch before epoch k, +infinity before epoch 0
PrevCost(k) == IF k = 0 THEN Inf ELSE CostOf(k - 1)
\* epoch k did not improve on the epoch before it
NonImproving(k) == CostOf(k) >= PrevCost(k)
\* the number of consecutive non-improving epochs that end at epoch k - 1
RECURSIVE Trailing(_)
Trailing(k) ==
  IF k = 0 THEN 0
  ELSE IF NonImproving(k - 1) THEN Trailing(k - 1) + 1 ELSE 0

\* C15 as stated: at the comparison of every epoch, oldcost is the minimum of
\* the costs of all earlier epochs (+infinity before epoch 0).
C15_Original ==
  (caller = "train_dsm" /\ pc = "check") => oldcost = MinCostBefore(Len(costs) - 1)

\* C15 amended: at the comparison of every epoch, oldcost is the cost of the
\* immediately preceding epoch (+infinity before epoch 0); patience grows by
\* one exactly when the current cost is >= that cost and patience is below 2,
\* and at patience 2 such an epoch stops training.
C15_Amended ==
  [][(caller = "train_dsm" /\ pc = "check") =>
       LET k == Len(costs) - 1
       IN /\ oldcost = PrevCost(k)
          /\ (patience' = patience + 1) <=> (CostOf(k) >= PrevCost(k) /\ patience < 2)
          /\ (pc' = "done") <=> (CostOf(k) >= PrevCost(k) /\ patience = 2)
          /\ pc' # "done" => oldcost' = CostOf(k)]_vars

\* epoch 2 improved on epoch 1 but not on the best cost so far
C15_Witness ==
  /\ caller = "train_dsm"
  /\ pc = "batch"
  /\ costs = <<1, 3, 2>>
  /\ patience = 0
  /\ oldcost = 2

\* C16: at the early-stopping check of epoch k the history holds k+1 costs
\* and k+1 snapshots in epoch order, snapshot j being the parameters after
\* the last batch step of epoch j, on which its cost was evaluated.
C16_HistoryPerEpoch ==
  (caller = "train_dsm" /\ pc = "check") =>
    /\ Len(costs) = i + 1
    /\ Len(dics) = i + 1
    /\ \A k \in 1..(i + 1) :
         dics[k] = [model.params EXCEPT !.steps = k * ((Len(x_train) \div bs) + 1)]
    /\ dics[i + 1] = model.params

C16_Witness ==
  /\ caller = "train_dsm"
  /\ pc = "check"
  /\ i = 2
  /\ Len(x_train) = 2
  /\ bs = 2
  /\ dics[1].steps = 2
  /\ dics[3].steps = 6
  /\ model.params.steps = 6

\* C17: pretraining takes the target model's dist tag and leaves the target
\* model as it was; before the first batch step the target's shape and scale
\* are exactly those of the pretrained minimal model, and nothing else of
\* the target model has changed.
C17_WarmStart ==
  /\ (caller = "train_dsm" /\ pc \in {"pretrain", "pretrain_ret"}) =>
       /\ model.params = InitStateDict
       /\ premodel.dist = model.dist
       /\ premodel.steps = Len(pre_costs)
  /\ InMainLoop =>
       /\ model.params.shape = [src |-> "premodel.shape", steps |-> premodel.steps]
       /\ model.params.scale = [src |-> "premodel.scale", steps |-> premodel.steps]
       /\ model.params.net = InitStateDict.net
       /\ premodel.dist = model.dist
       /\ (pc = "batch" /\ i = 0 /\ j = 0) => model.params.steps = 0

C17_Witness ==
  /\ caller = "train_dsm"
  /\ pc = "batch"
  /\ i = 0
  /\ j = 0
  /\ premodel.steps = 5
  /\ model.params.shape.steps = 5
  /\ model.params.shape.src = "premodel.shape"

\* C18 as stated: an early stop at epoch i has i >= 3, the costs of epochs
\* i-2, i-1 and i each being >= the cost of the epoch before.
C18_Original ==
  StoppedEarly =>
    /\ i >= 3
    /\ \A k \in (i - 2)..i : CostOf(k) >= CostOf(k - 1)

\* C18 amended: with +infinity standing for the cost before epoch 0, patience
\* stays in {0,1,2} and after each non-stopping epoch is the number of
\* trailing consecutive epochs whose cost was >= the cost before them; train
\* stops early at epoch i iff i is the first epoch such that i-2, i-1 and i
\* are all such epochs, which is never before index 2, and never before
\* index 3 when the cost of epoch 0 is finite; a strictly lower cost resets
\* patience to 0.
C18_Amended ==
  InMainLoop =>
    /\ patience \in {0, 1, 2}
    /\ pc = "check" => patience = Trailing(Len(costs) - 1)
    /\ (pc \in {"batch", "valid", "train_ret"} \/ RanToEnd) =>
         /\ patience = Trailing(Len(costs))
         /\ (costs # <<>> /\ ~NonImproving(Len(costs) - 1)) => patience = 0
    /\ StoppedEarly =>
         /\ i = Len(costs) - 1
         /\ i >= 2
         /\ CostOf(0) # Inf => i >= 3
    /\ \A k \in 2..(Len(costs) - 1) :
         (EpochChecked(k) /\ NonImproving(k - 2) /\ NonImproving(k - 1) /\ NonImproving(k))
           <=> (StoppedEarly /\ i = k)

C18_Witness ==
  /\ StoppedEarly
  /\ costs = <<Inf, Inf, Inf>>
  /\ i = 2
  /\ patience = 2

\* ---- unrolled times and events in train_dsm (SpecData) ----
\* train_dsm runs on the client's padded times and events
TrainOnPair == caller = "train_dsm" /\ input.kind = "pair"
\* a padded array [n][d][1] whose entries other than the sentinel are
\* replaced by their row-major position
Tagged(a) ==
  [r \in 1..Len(a) |->
     [c \in 1..Len(a[r]) |->
        <<IF a[r][c][1] = NaN THEN NaN ELSE (r - 1) * Len(a[r]) + c>>]]
\* the row-major positions, in an array of width d, of steps 1..lens[k] of
\* every subject k, in subject order
StepPositions(lens, d) ==
  Flatten([k \in 1..Len(lens) |-> [q \in 1..lens[k] |-> (k - 1) * d + q]])
\* the lengths of the subjects whose row ids are in rows
LengthsOf(rows) == [q \in 1..Len(rows) |-> Len(input.t[rows[q] + 1])]
\* the unrolled times and events of a padded pair hold, position by
\* position, the steps of the given lengths
AlignedOn(ta, ea, lens, d) ==
  /\ _reshape_tensor_with_nans(Tagged(ta)) = StepPositions(lens, d)
  /\ _reshape_tensor_with_nans(Tagged(ea)) = StepPositions(lens, d)
  /\ Len(_reshape_tensor_with_nans(ta)) = Len(_reshape_tensor_with_nans(ea))

\* C19: for times and events padded from sentinel-free sequences of the
\* same lengths, the unrolled arrays are equally long and position k of both
\* is the same (subject, step), for the whole training and validation sets
\* and for every batch slice; when only one of the two has a real value
\* equal to the sentinel, the unrolled arrays differ in length.
C19_UnrolledAligned ==
  TrainOnPair =>
    LET d == Len(t_train[1])
        all == LengthsOf(x_train)
    IN /\ (SentinelFree(input.t) /\ SentinelFree(input.e)) =>
            /\ AlignedOn(t_train, e_train, all, d)
            /\ AlignedOn(t_valid, e_valid, all, d)
            /\ Len(t_train_) = Len(e_train_)
            /\ Len(t_valid_) = Len(e_valid_)
            /\ t_train_ = _reshape_tensor_with_nans(t_train)
            /\ Len(t_train_) = SumTo(all, Len(all))
            /\ Len(epochBatches) > 0 => AlignedOn(tb, eb, LengthsOf(xb), d)
       /\ (SentinelFree(input.t) /\ ~SentinelFree(input.e)) =>
            Len(e_train_) < Len(t_train_)
       /\ (~SentinelFree(input.t) /\ SentinelFree(input.e)) =>
            /\ Len(t_train_) < Len(e_train_)
            /\ Len(t_valid_) < Len(e_valid_)

C19_Witness ==
  /\ TrainOnPair
  /\ input.t = << <<1, 1>>, <<1>> >>
  /\ input.e = << <<1, 1>>, <<1>> >>
  /\ bs = 1
  /\ j = 2
  /\ tb = << << <<1>>, <<NaN>> >> >>
  /\ eb = tb
  /\ t_train_ = <<1, 1, 1>>

====
